---- MODULE Spec2Model ----
(***************************************************************************)
(* Model of the T9+ tiered prefix suggestion engine (src/t9plus.c).        *)
(*                                                                         *)
(* Characters are one-character strings; a C string is the sequence of its *)
(* characters without the terminating NUL.  The NUL byte itself, which a   *)
(* data file may contain, is the token NUL.                                *)
(*                                                                         *)
(* Spec      the store's life cycle: t9plus_init, t9plus_deinit and        *)
(*           t9plus_get_suggestions, each one atomic action.  The calls    *)
(*           are sequential: out holds a call's result until its caller    *)
(*           has returned, and nothing else runs in between.               *)
(* SpecLoad  load_tier_from_file alone, one action per byte read, over a   *)
(*           family of data files around the line-length limit.            *)
(*                                                                         *)
(* malloc for a tier's array may fail (tier_alloc checks it); strdup is    *)
(* taken to succeed.                                                       *)
(***************************************************************************)
EXTENDS Integers, Sequences, FiniteSets, TLC

VARIABLES
    tiers,            \* t9plus_state.tier1 .. tier4: [words, count, capacity, alloc]
    initialized,      \* t9plus_state.initialized
    has_load_errors,  \* t9plus_state.has_load_errors
    error_message,    \* t9plus_state.error_message
    heap,             \* blocks given out by malloc and strdup and not yet freed
    init_log,         \* the last t9plus_init or t9plus_deinit: its sources and outcome
    diag,             \* the last t9plus_get_error_message call and what it returned
    out,              \* the last t9plus_get_suggestions call: arguments, result, trace
    ld,               \* load_tier_from_file in progress (SpecLoad)
    app               \* the host application: main loop, view ports, T9 screen

vars == <<tiers, initialized, has_load_errors, error_message, heap, init_log,
          diag, out, ld, app>>

----------------------------------------------------------------------------
\* Constants of the program

MAX_TIER_WORDS == 1000
MAX_WORD_LEN == 32
T9PLUS_MAX_SUGGESTIONS == 3
T9PLUS_MAX_WORD_LENGTH == 32
UINT8_MAX == 255

\* char buffer[MAX_WORD_LEN + 2]
BufferSize == MAX_WORD_LEN + 2

\* The five tiers, in the order t9plus_state declares them.
TierNames == <<"tier1", "tier2", "tier3a", "tier3b", "tier4">>
Tiers == {TierNames[i] : i \in 1..Len(TierNames)}

----------------------------------------------------------------------------
\* Characters

NUL == "\\0"
Uninit == "?uninit"

Upper == <<"A","B","C","D","E","F","G","H","I","J","K","L","M",
           "N","O","P","Q","R","S","T","U","V","W","X","Y","Z">>
Lower == <<"a","b","c","d","e","f","g","h","i","j","k","l","m",
           "n","o","p","q","r","s","t","u","v","w","x","y","z">>

UpperSet == {Upper[i] : i \in 1..Len(Upper)}
LowerOf == [c \in UpperSet |-> Lower[CHOOSE i \in 1..Len(Upper) : Upper[i] = c]]

\* tolower() in the C locale
tolower(c) == IF c \in UpperSet THEN LowerOf[c] ELSE c

\* isspace() in the C locale: space, \t, \n, \v, \f, \r
isspace(c) == c \in {" ", "\t", "\n", "\r", "\f", "\\v"}

\* The line terminators load_tier_from_file tests for
IsNewline(c) == c = "\n" \/ c = "\r"

\* The word delimiters t9plus_get_suggestions tests for
IsDelim(c) == c = " " \/ c = "\n" \/ c = "\r"

Min(a, b) == IF a < b THEN a ELSE b

\* The first n elements of s (all of s when it is shorter)
Take(s, n) == SubSeq(s, 1, Min(n, Len(s)))

\* The C string held in array a (indexed from 1) from its first byte up to the first NUL
RECURSIVE CStrFrom(_, _)
CStrFrom(a, i) ==
    IF i > Len(a) \/ a[i] = NUL THEN <<>>
    ELSE <<a[i]>> \o CStrFrom(a, i + 1)

CStr(a) == CStrFrom(a, 1)

----------------------------------------------------------------------------
\* Tiers

EmptyTier == [words |-> <<>>, count |-> 0, capacity |-> 0, alloc |-> FALSE]

\* tier_alloc: ok is malloc's outcome.  On failure only the words pointer is written.
tier_alloc(tier, capacity, ok) ==
    IF ok
    THEN [words |-> <<>>, count |-> 0, capacity |-> capacity, alloc |-> TRUE]
    ELSE [tier EXCEPT !.alloc = FALSE]

\* A tier_free that leaves the words pointer as it was
tier_free_dangling(tier) ==
    [tier EXCEPT !.words = <<>>, !.count = 0, !.capacity = 0]

\* tier_free
tier_free(tier) ==
    [words |-> <<>>, count |-> 0, capacity |-> 0, alloc |-> FALSE]

\* A tier_add_word that never finds the tier full
TierFull_never(tier) == FALSE

\* The capacity test of tier_add_word
TierFull(tier) == tier.count >= tier.capacity

\* A tier_add_word that puts a word into the last slot of a full tier
tier_add_word_replacing(tier, word) ==
    IF tier.count >= tier.capacity /\ tier.count > 0
    THEN [tier EXCEPT !.words[tier.count] = word]
    ELSE IF tier.count >= tier.capacity THEN tier
    ELSE [tier EXCEPT !.words = Append(tier.words, word), !.count = tier.count + 1]

\* tier_add_word: the word is duplicated into slot count
tier_add_word(tier, word) ==
    IF TierFull(tier) THEN tier
    ELSE [tier EXCEPT !.words = Append(tier.words, word), !.count = tier.count + 1]

----------------------------------------------------------------------------
\* load_tier_from_file

\* A source the storage cannot open
Unreadable == [open |-> FALSE, data |-> <<>>]

\* A source the storage opens, with the bytes it holds
File(data) == [open |-> TRUE, data |-> data]

\* fail_at of a file whose every byte the storage can read
NoFail == -1

\* The loader's locals once the file is open: buffer is char buffer[MAX_WORD_LEN + 2]
\* (buffer[i] of the code is buffer[i + 1] here), off counts the bytes consumed,
\* fail_at is the offset from which the storage fails to read the file.
LoaderStart(data, tier) ==
    [data |-> data, off |-> 0, pos |-> 0,
     buffer |-> [i \in 1..BufferSize |-> Uninit],
     bytes_read |-> 0, tier |-> tier, pc |-> "read",
     fail_at |-> NoFail, success |-> FALSE]

\* storage_file_read(file, buffer + pos, 1): one byte into buffer[pos]; 0 at the end
\* of the file and 0 when the read fails
file_read(l) ==
    IF l.off < Len(l.data) /\ l.off # l.fail_at
    THEN [l EXCEPT !.buffer[l.pos + 1] = l.data[l.off + 1],
                   !.off = l.off + 1, !.bytes_read = 1]
    ELSE [l EXCEPT !.bytes_read = 0]

\* while(pos > 0 && isspace(buffer[pos - 1])) buffer[--pos] = '\0';
RECURSIVE TrimTrailing(_)
TrimTrailing(l) ==
    IF l.pos > 0 /\ isspace(l.buffer[l.pos])
    THEN TrimTrailing([l EXCEPT !.buffer[l.pos] = NUL, !.pos = l.pos - 1])
    ELSE l

\* The test that lets a trimmed line into the tier
LineAccepted(l) == l.pos > 0 /\ l.buffer[1] # "#"

\* buffer[pos] = '\0'; trim; if(pos > 0 && buffer[0] != '#') tier_add_word(tier, buffer);
EndLine(l) ==
    LET z == [l EXCEPT !.buffer[l.pos + 1] = NUL]
        t == TrimTrailing(z)
    IN  IF LineAccepted(t)
        THEN [t EXCEPT !.tier = tier_add_word(t.tier, CStr(t.buffer))]
        ELSE t

\* A limit one byte lower
LineHasRoom_short(pos) == pos < MAX_WORD_LEN - 1

\* A test that lets a line fill the whole buffer
LineHasRoom_wide(pos) == pos < BufferSize

\* The test that lets one more byte of the line into the buffer
LineHasRoom(pos) == pos < MAX_WORD_LEN

\* A skip loop that goes on until it has read a line terminator
SkipContinues_untilnewline(r) == ~IsNewline(r.buffer[r.pos + 1])

\* while(bytes_read > 0 && buffer[pos] != '\n' && buffer[pos] != '\r')
SkipContinues(r) == r.bytes_read > 0 /\ ~IsNewline(r.buffer[r.pos + 1])

\* One read of the file and what the loop does with it.
\*   pc = "read": an iteration of while(true)
\*   pc = "skip": an iteration of the inner loop that skips an over-long line
\*   pc = "done": after the break
LoadStep(l) ==
    LET r == file_read(l) IN
    IF l.pc = "read" THEN
        IF r.bytes_read = 0 THEN
            [(IF r.pos > 0 THEN EndLine(r) ELSE r) EXCEPT !.pc = "done", !.success = TRUE]
        ELSE IF IsNewline(r.buffer[r.pos + 1]) THEN
            [EndLine(r) EXCEPT !.pos = 0]
        ELSE IF LineHasRoom(r.pos) THEN
            [r EXCEPT !.pos = r.pos + 1]
        ELSE
            [r EXCEPT !.pc = "skip"]
    ELSE IF l.pc = "skip" THEN
        IF SkipContinues(r)
        THEN r
        ELSE [r EXCEPT !.pos = 0, !.pc = "read"]
    ELSE l

RECURSIVE LoadRun(_)
LoadRun(l) == IF l.pc = "done" THEN l ELSE LoadRun(LoadStep(l))

\* load_tier_from_file: the tier after the load and the value returned
load_tier_from_file(source, tier) ==
    IF source.open
    THEN LET run == LoadRun(LoaderStart(source.data, tier))
         IN  [tier |-> run.tier, success |-> run.success]
    ELSE [tier |-> tier, success |-> FALSE]

----------------------------------------------------------------------------
\* t9plus_get_suggestions

\* A prefix test that compares the bytes as they are
starts_with_cs(word, prefix) ==
    IF Len(word) < Len(prefix) THEN FALSE
    ELSE \A i \in 1..Len(prefix) : word[i] = prefix[i]

\* starts_with_ci
starts_with_ci(word, prefix) ==
    IF Len(word) < Len(prefix) THEN FALSE
    ELSE \A i \in 1..Len(prefix) : tolower(word[i]) = tolower(prefix[i])

\* strncpy(dst, word, T9PLUS_MAX_WORD_LENGTH - 1); dst[T9PLUS_MAX_WORD_LENGTH - 1] = '\0';
CopyOut(word) == Take(word, T9PLUS_MAX_WORD_LENGTH - 1)

\* The caller's suggestions[T9PLUS_MAX_SUGGESTIONS][T9PLUS_MAX_WORD_LENGTH], slots 0..2
Unwritten == <<"?unwritten">>
NoSuggestions == [k \in 0..(T9PLUS_MAX_SUGGESTIONS - 1) |-> Unwritten]

\* What one call has done so far: the slots, *found_count, and a trace of the scan
\* (writes: the slot each match went to and the tier entry it was copied from;
\*  scanned: the tier entries compared; searched: the tiers search_tier was called on).
ScanStart ==
    [suggestions |-> NoSuggestions, found |-> 0,
     writes |-> <<>>, scanned |-> <<>>, searched |-> <<>>]

\* The loop of search_tier from index i (0-based) on
RECURSIVE SearchFrom(_, _, _, _, _, _)
SearchFrom(name, tier, prefix, st, max_suggestions, i) ==
    IF ~(i < tier.count /\ st.found < max_suggestions) THEN st
    ELSE
        LET seen == [st EXCEPT !.scanned = Append(st.scanned, <<name, i>>)]
            hit  == [seen EXCEPT
                        !.suggestions[st.found] = CopyOut(tier.words[i + 1]),
                        !.writes = Append(st.writes,
                                     [slot |-> st.found, tier |-> name, index |-> i]),
                        !.found = st.found + 1]
        IN  SearchFrom(name, tier, prefix,
                       IF starts_with_ci(tier.words[i + 1], prefix) THEN hit ELSE seen,
                       max_suggestions, i + 1)

\* A search that starts at the second entry
search_tier_from1(name, tier, prefix, st, max_suggestions) ==
    SearchFrom(name, tier, prefix,
               [st EXCEPT !.searched = Append(st.searched, name)], max_suggestions, 1)

\* search_tier
search_tier(name, tier, prefix, st, max_suggestions) ==
    SearchFrom(name, tier, prefix,
               [st EXCEPT !.searched = Append(st.searched, name)], max_suggestions, 0)

\* A search in the order the tiers are declared
ScanOrder_declared == TierNames

\* The order in which t9plus_get_suggestions searches the tiers
ScanOrder == <<"tier1", "tier3a", "tier3b", "tier2", "tier4">>

\* A test that gives up once any tier has matched
BudgetLeft_none(found, max_suggestions) == found = 0

\* The test before each search after the first
BudgetLeft(found, max_suggestions) == found < max_suggestions

\* The five searches, from the k-th of ScanOrder on
RECURSIVE SearchTiers(_, _, _, _, _)
SearchTiers(ts, prefix, st, max_suggestions, k) ==
    IF k > Len(ScanOrder) THEN st
    ELSE SearchTiers(ts, prefix,
             IF k = 1 \/ BudgetLeft(st.found, max_suggestions)
             THEN search_tier(ScanOrder[k], ts[ScanOrder[k]], prefix, st, max_suggestions)
             ELSE st,
             max_suggestions, k + 1)

\* A request taken as it comes
ClampMax_absent(max_suggestions) == max_suggestions

\* if(max_suggestions > T9PLUS_MAX_SUGGESTIONS) max_suggestions = T9PLUS_MAX_SUGGESTIONS;
ClampMax(max_suggestions) ==
    IF max_suggestions > T9PLUS_MAX_SUGGESTIONS THEN T9PLUS_MAX_SUGGESTIONS
    ELSE max_suggestions

\* No skip of the trailing delimiters
SkipTrailing_absent(input, p) == p

\* while(p >= input && (*p == ' ' || *p == '\n' || *p == '\r')) p--;     (p is 0-based)
RECURSIVE SkipTrailing(_, _)
SkipTrailing(input, p) ==
    IF p >= 0 /\ IsDelim(input[p + 1]) THEN SkipTrailing(input, p - 1) ELSE p

\* A backward scan that stops at spaces only
RECURSIVE WordStart_space(_, _)
WordStart_space(input, p) ==
    IF p >= 0 /\ input[p + 1] # " " THEN WordStart_space(input, p - 1) ELSE p

\* while(p >= input && *p != ' ' && *p != '\n' && *p != '\r') p--;
RECURSIVE WordStart(_, _)
WordStart(input, p) ==
    IF p >= 0 /\ ~IsDelim(input[p + 1]) THEN WordStart(input, p - 1) ELSE p

\* A copy that gives up on a word too long for last_word
RECURSIVE CopyLastWord_reject(_, _, _)
CopyLastWord_reject(input, p, last_word) ==
    IF p < Len(input) /\ ~IsDelim(input[p + 1])
    THEN IF Len(last_word) < MAX_WORD_LEN - 1
         THEN CopyLastWord_reject(input, p + 1, Append(last_word, input[p + 1]))
         ELSE <<>>
    ELSE last_word

\* while(*p && *p is no delimiter && word_len < MAX_WORD_LEN - 1) last_word[word_len++] = *p++;
RECURSIVE CopyLastWord(_, _, _)
CopyLastWord(input, p, last_word) ==
    IF p < Len(input) /\ ~IsDelim(input[p + 1]) /\ Len(last_word) < MAX_WORD_LEN - 1
    THEN CopyLastWord(input, p + 1, Append(last_word, input[p + 1]))
    ELSE last_word

\* const char* input = NULL
NullInput == <<"?null">>

\* last_word when the call returned before extracting one
NoWord == <<"?noword">>

\* A call that returns 0 before any search
Returns0(input, max_suggestions) ==
    [called |-> TRUE, input |-> input, max_suggestions |-> max_suggestions,
     ret |-> 0, last_word |-> NoWord] @@ ScanStart

\* t9plus_get_suggestions once the store is known to be initialized
Resolve(ts, input, max_suggestions) ==
    IF input = NullInput \/ Len(input) = 0 THEN Returns0(input, max_suggestions)
    ELSE
        LET max       == ClampMax(max_suggestions)
            p1        == SkipTrailing(input, Len(input) - 1)
            word_end  == p1 + 1
            last_word_start == WordStart(input, p1) + 1
            last_word == CopyLastWord(input, last_word_start, <<>>)
        IN  IF last_word_start >= word_end THEN Returns0(input, max_suggestions)
            ELSE IF Len(last_word) = 0 THEN Returns0(input, max_suggestions)
            ELSE
                LET st == SearchTiers(ts, last_word, ScanStart, max, 1)
                IN  [called |-> TRUE, input |-> input,
                     max_suggestions |-> max_suggestions,
                     ret |-> st.found, last_word |-> last_word] @@ st

\* A t9plus_get_suggestions without its first test
GetSuggestions_unchecked(ts, inited, input, max_suggestions) ==
    Resolve(ts, input, max_suggestions)

\* t9plus_get_suggestions on store (ts, inited): the value returned, the slots, the trace
t9plus_get_suggestions(ts, inited, input, max_suggestions) ==
    IF ~inited THEN Returns0(input, max_suggestions)
    ELSE Resolve(ts, input, max_suggestions)

----------------------------------------------------------------------------
\* t9plus_init, t9plus_deinit

\* The words t9plus_init adds to tier1 when it is empty after the loads
HardcodedWords ==
    <<<<"t","h","e">>,
      <<"t","h","a","t">>,
      <<"t","h","i","s">>,
      <<"t","o">>,
      <<"i","t">>,
      <<"i","s">>,
      <<"i","n">>,
      <<"a","n","d">>,
      <<"h","a","v","e">>,
      <<"w","e">>,
      <<"w","e","r","e">>,
      <<"w","i","l","l">>,
      <<"w","o","u","l","d">>,
      <<"h","e","l","l","o">>,
      <<"h","e","l","p">>,
      <<"w","o","r","l","d">>,
      <<"w","o","r","k">>>>

RECURSIVE AddWords(_, _)
AddWords(tier, ws) ==
    IF ws = <<>> THEN tier
    ELSE AddWords(tier_add_word(tier, Head(ws)), Tail(ws))

\* Hardcoded words whatever the loads gave
NeedsHardcoded_always(ts) == TRUE

\* The test that triggers the hardcoded words
NeedsHardcoded(ts) == ts["tier1"].count = 0

\* The position of a tier in TierNames
TierIndex(t) == CHOOSE i \in 1..Len(TierNames) : TierNames[i] = t

\* Tier allocation that returns at the failing malloc without freeing the earlier tiers
AllocTiers_leak(ts, alloc_fail) ==
    [t \in Tiers |->
        IF alloc_fail = 0 \/ TierIndex(t) < alloc_fail
        THEN tier_alloc(ts[t], MAX_TIER_WORDS, TRUE)
        ELSE IF TierIndex(t) = alloc_fail
        THEN tier_alloc(ts[t], MAX_TIER_WORDS, FALSE)
        ELSE ts[t]]

\* The five tier_alloc calls when the alloc_fail-th malloc fails (0: none does): the
\* tiers allocated before it are freed again, the ones after it are not touched.
AllocTiers(ts, alloc_fail) ==
    [t \in Tiers |->
        IF alloc_fail = 0 \/ TierIndex(t) < alloc_fail
        THEN LET a == tier_alloc(ts[t], MAX_TIER_WORDS, TRUE)
             IN  IF alloc_fail = 0 THEN a ELSE tier_free(a)
        ELSE IF TierIndex(t) = alloc_fail
        THEN tier_alloc(ts[t], MAX_TIER_WORDS, FALSE)
        ELSE ts[t]]

\* snprintf(error_message, ..., "%d", n) for the counts that occur
Digits == <<"1", "2", "3", "4", "5">>
NoMessage == <<>>
NoDataMessage == <<"ERROR: No data files found!">>
MissingMessage(n) == <<"WARNING: ", Digits[n], " data file(s) missing">>
NotInitializedMessage == <<"T9+ not initialized">>

\* NULL returned by t9plus_get_error_message
NullMessage == <<"?NULL">>

\* The blocks a tier owns: its array and one string per word (what tier_free frees)
Blocks(tier) == IF tier.alloc THEN 1 + tier.count ELSE 0

RECURSIVE BlocksOf(_, _)
BlocksOf(ts, S) ==
    IF S = {} THEN 0
    ELSE LET t == CHOOSE u \in S : TRUE IN Blocks(ts[t]) + BlocksOf(ts, S \ {t})

\* What a run of t9plus_init was given and did
NoInit == [last |-> "none", ret |-> FALSE, sources |-> [t \in Tiers |-> Unreadable],
           loaded |-> [t \in Tiers |-> <<>>], failed_count |-> 0, alloc_fail |-> 0]

\* Loads that stop at the first source that fails
LoadAll_abort(allocated, sources) ==
    [t \in Tiers |->
        IF \E u \in Tiers : TierIndex(u) < TierIndex(t) /\ ~sources[u].open
        THEN [tier |-> allocated[t], success |-> FALSE]
        ELSE load_tier_from_file(sources[t], allocated[t])]

\* The five load_tier_from_file calls, each on its own path and its own tier
LoadAll(allocated, sources) ==
    [t \in Tiers |-> load_tier_from_file(sources[t], allocated[t])]

\* An initialize() that fails when no source loaded
InitSucceeds_strict(failed_count) == failed_count < 5

\* t9plus_state.initialized = true; return true;  whatever the loads did
InitSucceeds(failed_count) == TRUE

\* t9plus_init once the five loads have returned loads[t] (the tier and the value
\* returned): hardcoded words, diagnostic, initialized.
InitLoaded(s, sources, loads) ==
    LET loaded == [t \in Tiers |-> loads[t].tier]
        failed_count == Cardinality({t \in Tiers : ~loads[t].success})
        all_loaded == \A t \in Tiers : loads[t].success
        filled == IF NeedsHardcoded(loaded)
                  THEN [loaded EXCEPT !["tier1"] = AddWords(loaded["tier1"], HardcodedWords)]
                  ELSE loaded
    IN  [tiers |-> filled,
         initialized |-> InitSucceeds(failed_count),
         has_load_errors |-> ~all_loaded,
         error_message |-> IF all_loaded THEN NoMessage
                           ELSE IF failed_count = 5 THEN NoDataMessage
                           ELSE MissingMessage(failed_count),
         heap |-> s.heap + BlocksOf(filled, Tiers),
         init_log |-> [last |-> "loaded", ret |-> InitSucceeds(failed_count),
                       sources |-> sources,
                       loaded |-> [t \in Tiers |-> loaded[t].words],
                       failed_count |-> failed_count, alloc_fail |-> 0]]

\* t9plus_init past its first test: allocation, loads, hardcoded words, diagnostic.
\* heap counts the blocks malloc and strdup have given out and free has not had back.
InitFresh(s, alloc_fail, sources) ==
    IF alloc_fail # 0 THEN
        LET before == {t \in Tiers : TierIndex(t) < alloc_fail}
            given  == [t \in Tiers |-> tier_alloc(s.tiers[t], MAX_TIER_WORDS, TRUE)]
            left   == AllocTiers(s.tiers, alloc_fail)
            freed  == BlocksOf(given, before) - BlocksOf(left, before)
        IN  [s EXCEPT !.tiers = left,
                      !.heap = s.heap + Cardinality(before) - freed,
                      !.init_log = [NoInit EXCEPT !.last = "allocfail",
                                                  !.alloc_fail = alloc_fail]]
    ELSE
        InitLoaded(s, sources, LoadAll(AllocTiers(s.tiers, 0), sources))

\* A t9plus_init without its first test
t9plus_init_again(s, alloc_fail, sources) == InitFresh(s, alloc_fail, sources)

\* t9plus_init: the state it leaves.  sources[t] is the data file of tier t.
t9plus_init(s, alloc_fail, sources) ==
    IF s.initialized THEN
        [s EXCEPT !.init_log.last = "already", !.init_log.ret = TRUE]
    ELSE InitFresh(s, alloc_fail, sources)

\* t9plus_deinit
t9plus_deinit(s) ==
    IF ~s.initialized THEN [s EXCEPT !.init_log.last = "deinit_noop"]
    ELSE [s EXCEPT !.tiers = [t \in Tiers |-> tier_free(s.tiers[t])],
                   !.heap = s.heap - BlocksOf(s.tiers, Tiers),
                   !.initialized = FALSE,
                   !.init_log = [NoInit EXCEPT !.last = "deinit"]]

\* A t9plus_get_error_message that hands out the buffer whatever has_load_errors says
t9plus_get_error_message_buffer(s) ==
    IF ~s.initialized THEN NotInitializedMessage ELSE s.error_message

\* t9plus_get_error_message
t9plus_get_error_message(s) ==
    IF ~s.initialized THEN NotInitializedMessage
    ELSE IF s.has_load_errors THEN s.error_message
    ELSE NullMessage

----------------------------------------------------------------------------
\* The environment of the store: data files, allocation outcomes, queries

\* Longest query drawn from QueryChars
MaxInputLen == 2

\* Most chunks (a line and its terminator) in a file given to the loader alone
MaxChunks == 2

\* Most word lines beyond MAX_TIER_WORDS in a file that fills a tier
ExtraWords == 2

\* Latest offset near the start of a file at which its reads begin to fail
MaxFailAt == 3

\* Most characters in the text buffer for the T9 screen to add one more
MaxTyped == 1

\* The data file of each tier when the storage holds one
TierData ==
    [tier1  |-> <<"t","h","e","\n","t","o","\n","t","e","s","t","\n","h","e","\n">>,
     tier2  |-> <<"T","h","e","r","e","\n","h","e","\n">>,
     tier3a |-> <<"#"," ","c","\n","\n","H","e","l","l","o","\n","t","e","a"," "," ","\n","h","i">>,
     tier3b |-> <<"h","a","\r","\n","t","e","s","t","\n">>,
     tier4  |-> <<"h","e","y","\n","t","h","e","\n","t","e","s","t","\n","t","o","o","\n">>]

\* A readable file that holds no word
CommentOnly == <<"#","t","h","e","\n","\n"," "," ","\n">>

\* What t9plus_init may find at the path of tier t
StoreSources(t) ==
    {Unreadable, File(TierData[t])} \cup (IF t = "tier1" THEN {File(CommentOnly)} ELSE {})

SourceChoices == {f \in [Tiers -> UNION {StoreSources(t) : t \in Tiers}] :
                     \A t \in Tiers : f[t] \in StoreSources(t)}

QueryChars == {"t", "h", " "}

RECURSIVE SeqsUpTo(_, _)
SeqsUpTo(S, n) ==
    IF n = 0 THEN {<<>>}
    ELSE LET shorter == SeqsUpTo(S, n - 1)
         IN  shorter \cup {Append(q, c) : q \in shorter, c \in S}

\* n copies of c
Rep(c, n) == [i \in 1..n |-> c]

ExampleInputs ==
    {<<"t","e","s","t"," ">>,
     <<"t","e","s","t">>,
     <<"h","e","l","l","o"," ","t","h","e","r","e"," ">>,
     <<"h","e","l","l","o"," ","t","h","e","r","e">>,
     <<"h","e","l">>,
     <<"I"," ","w","a","n","t"," ","t">>,
     <<"t","\n">>,
     <<"t","\r">>,
     <<"T">>,
     <<"H","E">>,
     <<"h","e">>,
     <<"H","e">>,
     <<"h","\n","t">>,
     <<"h","\r","t">>,
     <<"h","\t","t">>,
     Rep("t", MAX_WORD_LEN - 1),
     <<"h"," ">> \o Rep("t", MAX_WORD_LEN),
     NullInput}

Inputs == SeqsUpTo(QueryChars, MaxInputLen) \cup ExampleInputs

\* max_suggestions is a uint8_t
Requests == 0..(T9PLUS_MAX_SUGGESTIONS + 1) \cup {UINT8_MAX}

\* Lines for the loader: short ones, comments, blanks, NUL bytes, and lines around the
\* MAX_WORD_LEN limit with and without trailing blanks
LoadLines ==
    {<<>>, <<"a">>, <<"#", "a">>, <<" ", "#">>, <<"b", " ">>, <<" ">>, <<"c", "\t">>,
     <<NUL, "a">>, <<"a", NUL, "b">>,
     Rep("a", MAX_WORD_LEN - 1), Rep("a", MAX_WORD_LEN), Rep("a", MAX_WORD_LEN + 1),
     Rep("a", MAX_WORD_LEN - 1) \o <<" ", " ">>}

Terminators == {<<"\n">>, <<"\r">>, <<>>}

Chunks == {l \o t : l \in LoadLines, t \in Terminators}

RECURSIVE FilesUpTo(_)
FilesUpTo(n) ==
    IF n = 0 THEN {<<>>}
    ELSE LET shorter == FilesUpTo(n - 1)
         IN  shorter \cup {f \o c : f \in shorter, c \in Chunks}

LoadFiles == FilesUpTo(MaxChunks)

\* Lines that differ in what the loops of the loader test: empty, short, with a NUL,
\* and of 31, 32 and 33 bytes
LoopLines ==
    {<<>>, <<"a">>, <<NUL, "a">>,
     Rep("a", MAX_WORD_LEN - 1), Rep("a", MAX_WORD_LEN), Rep("a", MAX_WORD_LEN + 1)}

LoopChunks == {l \o t : l \in LoopLines, t \in Terminators}

RECURSIVE LoopFilesUpTo(_)
LoopFilesUpTo(n) ==
    IF n = 0 THEN {<<>>}
    ELSE LET shorter == LoopFilesUpTo(n - 1)
         IN  shorter \cup {f \o c : f \in shorter, c \in LoopChunks}

LoopFiles == LoopFilesUpTo(MaxChunks)

\* Files holding words as long as the loader lets in: a word of 31 letters "t", a word
\* of "h" and 31 letters "t", and a line too long to be stored
LongFiles ==
    {Rep("t", MAX_WORD_LEN - 1) \o <<"\n">> \o <<"h">> \o Rep("t", MAX_WORD_LEN - 1) \o <<"\n">>,
     Rep("t", MAX_WORD_LEN + 1) \o <<"\n">> \o <<"h">> \o Rep("t", MAX_WORD_LEN - 1),
     <<"t", "o", "\n">> \o Rep("t", MAX_WORD_LEN - 1)}

\* The data files the application finds: all five, or none
AppSources == {[t \in Tiers |-> File(TierData[t])], [t \in Tiers |-> Unreadable]}

\* What the text input module can leave in text_buffer
KeyboardTexts == {<<>>, <<"t">>, <<"h", "e", " ">>}

\* Offsets at which a read failure sets in: in the first line, and one byte after an
\* over-long line has filled the buffer
FailOffsets == 0..MaxFailAt \cup {MAX_WORD_LEN + 1}

\* n lines holding one letter each, "a" and "b" in turn
WordLines(n) ==
    [i \in 1..(2 * n) |-> IF i % 2 = 0 THEN "\n" ELSE IF i % 4 = 1 THEN "a" ELSE "b"]

\* Files with as many word lines as a tier holds and up to ExtraWords more, alone or
\* after a line too long to be stored
FullFiles ==
    {head \o WordLines(MAX_TIER_WORDS + k) :
        head \in {<<>>, Rep("a", MAX_WORD_LEN + 1) \o <<"\n">>}, k \in 0..ExtraWords}

----------------------------------------------------------------------------
\* The host application (type-aid.c)

TEXT_BUFFER_SIZE == 256

\* The keyboard lines of the T9 screen; line l of the code is t9_lines[l + 1] here
t9_lines ==
    << <<"q","w","e","r","t","z","u","i","o","p","[","]">>,
       <<"a","s","d","f","g","h","j","k","l","'">>,
       <<"y","x","c","v","b","n","m",",",";",".",":","-">>,
       <<>> >>

t9_lines_upper ==
    << <<"Q","W","E","R","T","Z","U","I","O","P","[","]">>,
       <<"A","S","D","F","G","H","J","K","L","'">>,
       <<"Y","X","C","V","B","N","M",",",";",".",":","-">>,
       <<>> >>

\* min_pos and max_pos of t9_move_cursor: lines 2 and 3 have a button at -1
MinPos(line) == IF line = 2 \/ line = 3 THEN -1 ELSE 0
MaxPos(line) == Len(t9_lines[line + 1]) - 1

\* The cursor positions at which OK is pressed: a button, the first key of a line,
\* its fifth key, and its last key or beyond
OkPressedAt(c) == c.pos \in {-1, 0, 4} \/ c.pos >= MaxPos(c.line)

\* A move to another line that keeps the position as it is
ClampPos_none(line, pos) == pos

\* if(pos < min_pos) pos = min_pos; else if(pos > max_pos) pos = max_pos;
ClampPos(line, pos) ==
    IF pos < MinPos(line) THEN MinPos(line)
    ELSE IF pos > MaxPos(line) THEN MaxPos(line)
    ELSE pos

\* t9_move_cursor on the cursor c
t9_move_cursor(c, line_delta, pos_delta) ==
    LET new_line == c.line + line_delta
        moved == IF line_delta # 0 /\ new_line >= 0 /\ new_line < 4
                 THEN [line |-> new_line, pos |-> ClampPos(new_line, c.pos)]
                 ELSE c
        new_pos == moved.pos + pos_delta
    IN  IF pos_delta # 0 /\ new_pos >= MinPos(moved.line) /\ new_pos <= MaxPos(moved.line)
        THEN [moved EXCEPT !.pos = new_pos]
        ELSE moved

\* No read of a keyboard line by the last key handler
NoFetch == [done |-> FALSE, line |-> 0, pos |-> 0]

\* What line_str[pos] can be: the character there, or whatever lies outside the string
CharAt(line_str, pos) ==
    IF pos >= 0 /\ pos < Len(line_str) THEN {line_str[pos + 1]} ELSE {NUL, "?"}

\* t9_add_character, ch being the byte that line_str[t9_cursor.pos] gave;
\* fetched records that read
t9_add_character(a, ch) ==
    IF a.t9_cursor.line = 2 /\ a.t9_cursor.pos = -1 THEN
        [a EXCEPT !.shift_locked = ~a.shift_locked, !.fetched = NoFetch]
    ELSE IF a.t9_cursor.line = 3 /\ a.t9_cursor.pos = -1 THEN
        IF Len(a.text_buffer) < TEXT_BUFFER_SIZE - 1
        THEN [a EXCEPT !.text_buffer = Append(a.text_buffer, " "), !.fetched = NoFetch]
        ELSE [a EXCEPT !.fetched = NoFetch]
    ELSE IF Len(a.text_buffer) < TEXT_BUFFER_SIZE - 1 THEN
        [a EXCEPT !.text_buffer = CStr(Append(a.text_buffer, ch) \o <<NUL>>),
                  !.fetched = [done |-> TRUE, line |-> a.t9_cursor.line,
                               pos |-> a.t9_cursor.pos]]
    ELSE [a EXCEPT !.fetched = NoFetch]

\* The application before type_aid_main runs: the statics t9_cursor and shift_locked,
\* no view port, no TypeAidApp yet
NoApp ==
    [pc |-> "start", in_t9_mode |-> FALSE, attached |-> {}, allocated |-> {},
     text_buffer |-> <<>>, keyboard_used |-> FALSE,
     t9_cursor |-> [line |-> 0, pos |-> 0], shift_locked |-> FALSE,
     fetched |-> NoFetch]

----------------------------------------------------------------------------
\* The state machine

\* t9plus_state
State ==
    [tiers |-> tiers, initialized |-> initialized, has_load_errors |-> has_load_errors,
     error_message |-> error_message, heap |-> heap, init_log |-> init_log]

\* No call of t9plus_get_suggestions whose batch the caller still holds
NoCall ==
    [called |-> FALSE, input |-> <<>>, max_suggestions |-> 0, ret |-> 0,
     last_word |-> NoWord] @@ ScanStart

\* No call of t9plus_get_error_message whose result the caller still holds
NoDiag == [called |-> FALSE, ret |-> NullMessage]

\* A call has returned and its caller has not
Busy == out.called \/ diag.called

\* No load in progress
Idle == [pc |-> "idle"]

\* t9plus_state = {0}
Init ==
    /\ tiers = [t \in Tiers |-> EmptyTier]
    /\ initialized = FALSE
    /\ has_load_errors = FALSE
    /\ error_message = NoMessage
    /\ heap = 0
    /\ init_log = NoInit
    /\ diag = NoDiag
    /\ out = NoCall
    /\ app = NoApp
    /\ ld = Idle

Becomes(n) ==
    /\ tiers' = n.tiers
    /\ initialized' = n.initialized
    /\ has_load_errors' = n.has_load_errors
    /\ error_message' = n.error_message
    /\ heap' = n.heap
    /\ init_log' = n.init_log

\* t9plus_init() on a store that is not initialized, all five allocations succeeding
InitLoads ==
    /\ ~Busy
    /\ ~initialized
    /\ \E sources \in SourceChoices : Becomes(t9plus_init(State, 0, sources))
    /\ UNCHANGED <<diag, out, ld, app>>

\* t9plus_init() on a store that is not initialized, one allocation failing
InitAllocFails ==
    /\ ~Busy
    /\ ~initialized
    /\ \E alloc_fail \in 1..Len(TierNames) :
           Becomes(t9plus_init(State, alloc_fail, [t \in Tiers |-> Unreadable]))
    /\ UNCHANGED <<diag, out, ld, app>>

\* t9plus_init() on an initialized store
InitAgain ==
    /\ ~Busy
    /\ initialized
    /\ \E sources \in SourceChoices, alloc_fail \in 0..Len(TierNames) :
           Becomes(t9plus_init(State, alloc_fail,
                               IF alloc_fail = 0 THEN sources
                               ELSE [t \in Tiers |-> Unreadable]))
    /\ UNCHANGED <<diag, out, ld, app>>

\* t9plus_deinit()
Deinit ==
    /\ ~Busy
    /\ Becomes(t9plus_deinit(State))
    /\ UNCHANGED <<diag, out, ld, app>>

\* A lookup that takes the words it returns out of tier1
GetSuggestions_consuming ==
    /\ ~Busy
    /\ \E input \in Inputs, max_suggestions \in Requests :
           out' = t9plus_get_suggestions(tiers, initialized, input, max_suggestions)
    /\ tiers' = IF out'.ret > 0
                THEN [tiers EXCEPT !["tier1"].words = <<>>, !["tier1"].count = 0]
                ELSE tiers
    /\ UNCHANGED <<initialized, has_load_errors, error_message, heap, init_log, diag, ld, app>>

\* t9plus_get_suggestions(input, suggestions, max_suggestions) on zeroed suggestions
GetSuggestions ==
    /\ ~Busy
    /\ \E input \in Inputs, max_suggestions \in Requests :
           out' = t9plus_get_suggestions(tiers, initialized, input, max_suggestions)
    /\ UNCHANGED <<tiers, initialized, has_load_errors, error_message, heap, init_log,
                   diag, ld, app>>

\* t9plus_get_error_message()
GetErrorMessage ==
    /\ ~Busy
    /\ diag' = [called |-> TRUE, ret |-> t9plus_get_error_message(State)]
    /\ UNCHANGED <<tiers, initialized, has_load_errors, error_message, heap, init_log,
                   out, ld, app>>

\* The caller is done with what the call gave it: the suggestions array goes out of
\* scope, the message is no longer looked at
CallerReturns ==
    /\ Busy
    /\ out' = NoCall
    /\ diag' = NoDiag
    /\ UNCHANGED <<tiers, initialized, has_load_errors, error_message, heap, init_log, ld, app>>

Next ==
    \/ InitLoads \/ InitAllocFails \/ InitAgain \/ Deinit
    \/ GetSuggestions \/ GetErrorMessage \/ CallerReturns

Spec == Init /\ [][Next]_vars

\* load_tier_from_file on an opened file and a freshly allocated tier
InitLoad ==
    /\ tiers = [t \in Tiers |-> EmptyTier]
    /\ initialized = FALSE
    /\ has_load_errors = FALSE
    /\ error_message = NoMessage
    /\ heap = 0
    /\ init_log = NoInit
    /\ diag = NoDiag
    /\ out = NoCall
    /\ app = NoApp
    /\ \E data \in LoadFiles :
           ld = LoaderStart(data, tier_alloc(EmptyTier, MAX_TIER_WORDS, TRUE))

\* One storage_file_read in the main loop
LoadRead ==
    /\ ld.pc = "read"
    /\ ld' = LoadStep(ld)
    /\ UNCHANGED <<tiers, initialized, has_load_errors, error_message, heap, init_log,
                   diag, out, app>>

\* One storage_file_read in the loop that skips an over-long line
LoadSkip ==
    /\ ld.pc = "skip"
    /\ ld' = LoadStep(ld)
    /\ UNCHANGED <<tiers, initialized, has_load_errors, error_message, heap, init_log,
                   diag, out, app>>

NextLoad == LoadRead \/ LoadSkip

SpecLoad == InitLoad /\ [][NextLoad]_vars

\* load_tier_from_file alone on a file of LoopFiles
InitLoop ==
    /\ tiers = [t \in Tiers |-> EmptyTier]
    /\ initialized = FALSE
    /\ has_load_errors = FALSE
    /\ error_message = NoMessage
    /\ heap = 0
    /\ init_log = NoInit
    /\ diag = NoDiag
    /\ out = NoCall
    /\ app = NoApp
    /\ \E data \in LoopFiles :
           ld = LoaderStart(data, tier_alloc(EmptyTier, MAX_TIER_WORDS, TRUE))

\* The loader keeps running until it returns: nothing suspends load_tier_from_file
SpecLoadFair == InitLoop /\ [][NextLoad]_vars /\ WF_vars(NextLoad)

\* load_tier_from_file alone on a file with more word lines than a tier holds
InitFull ==
    /\ tiers = [t \in Tiers |-> EmptyTier]
    /\ initialized = FALSE
    /\ has_load_errors = FALSE
    /\ error_message = NoMessage
    /\ heap = 0
    /\ init_log = NoInit
    /\ diag = NoDiag
    /\ out = NoCall
    /\ app = NoApp
    /\ \E data \in FullFiles :
           ld = LoaderStart(data, tier_alloc(EmptyTier, MAX_TIER_WORDS, TRUE))

NextFull == LoadRead \/ LoadSkip

SpecFull == InitFull /\ [][NextFull]_vars

\* load_tier_from_file alone on a file whose reads fail from some offset on
InitRead ==
    /\ tiers = [t \in Tiers |-> EmptyTier]
    /\ initialized = FALSE
    /\ has_load_errors = FALSE
    /\ error_message = NoMessage
    /\ heap = 0
    /\ init_log = NoInit
    /\ diag = NoDiag
    /\ out = NoCall
    /\ app = NoApp
    /\ \E data \in LoadFiles, k \in FailOffsets :
           /\ k < Len(data)
           /\ ld = [LoaderStart(data, tier_alloc(EmptyTier, MAX_TIER_WORDS, TRUE))
                       EXCEPT !.fail_at = k]

NextRead == LoadRead \/ LoadSkip

SpecRead == InitRead /\ [][NextRead]_vars

\* t9plus_init taken one read at a time: four data files are missing and the fifth
\* holds long words
InitLong ==
    /\ tiers = [t \in Tiers |-> EmptyTier]
    /\ initialized = FALSE
    /\ has_load_errors = FALSE
    /\ error_message = NoMessage
    /\ heap = 0
    /\ init_log = NoInit
    /\ diag = NoDiag
    /\ out = NoCall
    /\ app = NoApp
    /\ \E data \in LongFiles :
           ld = LoaderStart(data, tier_alloc(EmptyTier, MAX_TIER_WORDS, TRUE))

\* The rest of t9plus_init once the load of the one file present has ended
InitFinishes ==
    /\ ~Busy
    /\ ~initialized
    /\ ld.pc = "done"
    /\ \E t \in Tiers :
           LET sources == [u \in Tiers |-> IF u = t THEN File(ld.data) ELSE Unreadable]
               allocated == AllocTiers(tiers, 0)
               loads == [u \in Tiers |->
                            IF u = t THEN [tier |-> ld.tier, success |-> ld.success]
                            ELSE load_tier_from_file(sources[u], allocated[u])]
           IN  Becomes(InitLoaded(State, sources, loads))
    /\ UNCHANGED <<diag, out, ld, app>>

NextLong == LoadRead \/ LoadSkip \/ InitFinishes \/ GetSuggestions \/ CallerReturns

SpecLong == InitLong /\ [][NextLong]_vars

\* type_aid_app_alloc up to gui_add_view_port: both view ports exist, the splash
\* view port is attached
AppAlloc ==
    /\ app.pc = "start"
    /\ app' = [app EXCEPT !.pc = "alloc", !.allocated = {"splash", "t9"},
                          !.attached = {"splash"}, !.text_buffer = <<>>,
                          !.in_t9_mode = FALSE, !.keyboard_used = FALSE]
    /\ UNCHANGED <<tiers, initialized, has_load_errors, error_message, heap, init_log,
                   diag, out, ld>>

\* t9plus_init() at the end of type_aid_app_alloc; its result is not looked at
AppInit ==
    /\ app.pc = "alloc"
    /\ \E sources \in AppSources, alloc_fail \in {0, Len(TierNames)} :
           Becomes(t9plus_init(State, alloc_fail,
                               IF alloc_fail = 0 THEN sources
                               ELSE [t \in Tiers |-> Unreadable]))
    /\ app' = [app EXCEPT !.pc = "loop"]
    /\ UNCHANGED <<diag, out, ld>>

\* The GUI draws the T9 view port: t9_draw_callback asks for suggestions when the
\* text buffer is not empty, and holds them until CallerReturns
T9Draw ==
    /\ "t9" \in app.attached
    /\ ~Busy
    /\ app.text_buffer # <<>>
    /\ out' = t9plus_get_suggestions(tiers, initialized, app.text_buffer,
                                     T9PLUS_MAX_SUGGESTIONS)
    /\ UNCHANGED <<tiers, initialized, has_load_errors, error_message, heap, init_log,
                   diag, ld, app>>

\* Back on the splash screen: the main loop breaks
SplashKeyBack ==
    /\ app.pc = "loop" /\ ~app.in_t9_mode
    /\ app' = [app EXCEPT !.pc = "free"]
    /\ UNCHANGED <<tiers, initialized, has_load_errors, error_message, heap, init_log,
                   diag, out, ld>>

\* OK on the splash screen: the T9 view port replaces the splash view port.
\* gui_remove_view_port and gui_add_view_port take the GUI lock, which a draw holds
SplashKeyOk ==
    /\ app.pc = "loop" /\ ~app.in_t9_mode /\ ~Busy
    /\ app' = [app EXCEPT !.in_t9_mode = TRUE,
                          !.attached = (app.attached \ {"splash"}) \cup {"t9"}]
    /\ UNCHANGED <<tiers, initialized, has_load_errors, error_message, heap, init_log,
                   diag, out, ld>>

\* Down or Right on the splash screen: the text input runs and the splash returns
SplashKeyboard ==
    /\ app.pc = "loop" /\ ~app.in_t9_mode /\ ~Busy
    /\ \E text \in KeyboardTexts \cup {app.text_buffer} :
           app' = [app EXCEPT !.keyboard_used = TRUE, !.text_buffer = text,
                              !.attached = (app.attached \ {"splash"}) \cup {"splash"}]
    /\ UNCHANGED <<tiers, initialized, has_load_errors, error_message, heap, init_log,
                   diag, out, ld>>

\* A T9 screen in which Back leaves the application
T9KeyBack_exits ==
    /\ app.pc = "loop" /\ app.in_t9_mode
    /\ app' = [app EXCEPT !.pc = "free", !.fetched = NoFetch]
    /\ UNCHANGED <<tiers, initialized, has_load_errors, error_message, heap, init_log,
                   diag, out, ld>>

\* Back on the T9 screen: cursor and shift lock are reset, the splash view port
\* replaces the T9 view port; gui_remove_view_port waits for a draw in progress
T9KeyBack ==
    /\ app.pc = "loop" /\ app.in_t9_mode /\ ~Busy
    /\ app' = [app EXCEPT !.in_t9_mode = FALSE,
                          !.t9_cursor = [line |-> 0, pos |-> 0],
                          !.shift_locked = FALSE,
                          !.attached = (app.attached \ {"t9"}) \cup {"splash"},
                          !.fetched = NoFetch]
    /\ UNCHANGED <<tiers, initialized, has_load_errors, error_message, heap, init_log,
                   diag, out, ld>>

\* OK on the T9 screen: t9_add_character
T9KeyOk ==
    /\ app.pc = "loop" /\ app.in_t9_mode
    /\ OkPressedAt(app.t9_cursor)
    /\ \/ app.t9_cursor = [line |-> 2, pos |-> -1]
       \/ Len(app.text_buffer) < MaxTyped
    /\ \E ch \in CharAt(IF app.shift_locked THEN t9_lines_upper[app.t9_cursor.line + 1]
                        ELSE t9_lines[app.t9_cursor.line + 1], app.t9_cursor.pos) :
           app' = t9_add_character(app, ch)
    /\ UNCHANGED <<tiers, initialized, has_load_errors, error_message, heap, init_log,
                   diag, out, ld>>

\* Up, Down, Left or Right on the T9 screen: t9_move_cursor
T9KeyMove ==
    /\ app.pc = "loop" /\ app.in_t9_mode
    /\ \E d \in {<<-1, 0>>, <<1, 0>>, <<0, -1>>, <<0, 1>>} :
           app' = [app EXCEPT !.t9_cursor = t9_move_cursor(app.t9_cursor, d[1], d[2]),
                              !.fetched = NoFetch]
    /\ UNCHANGED <<tiers, initialized, has_load_errors, error_message, heap, init_log,
                   diag, out, ld>>

\* type_aid_app_free up to free(app): the splash view port is removed from the GUI,
\* which waits for a draw in progress, and both view ports are freed
AppFreePorts ==
    /\ app.pc = "free" /\ ~Busy
    /\ app' = [app EXCEPT !.pc = "deinit", !.attached = app.attached \ {"splash"},
                          !.allocated = {}]
    /\ UNCHANGED <<tiers, initialized, has_load_errors, error_message, heap, init_log,
                   diag, out, ld>>

\* t9plus_deinit() at the end of type_aid_app_free
AppDeinit ==
    /\ app.pc = "deinit"
    /\ Becomes(t9plus_deinit(State))
    /\ app' = [app EXCEPT !.pc = "exited"]
    /\ UNCHANGED <<diag, out, ld>>

NextApp ==
    \/ AppAlloc \/ AppInit \/ T9Draw \/ CallerReturns
    \/ SplashKeyBack \/ SplashKeyOk \/ SplashKeyboard
    \/ T9KeyBack \/ T9KeyOk \/ T9KeyMove
    \/ AppFreePorts \/ AppDeinit

\* type_aid_main with the GUI drawing the attached view ports
SpecApp == Init /\ [][NextApp]_vars

----------------------------------------------------------------------------
\* Vocabulary of the claims, stated apart from the code

\* Two characters equal up to ASCII case
SameLetter(a, b) ==
    a = b \/ \E k \in 1..Len(Upper) : {a, b} = {Upper[k], Lower[k]}

\* word has at least Len(prefix) characters and starts with prefix, ASCII case ignored
MatchesPrefix(word, prefix) ==
    /\ Len(word) >= Len(prefix)
    /\ \A i \in 1..Len(prefix) : SameLetter(word[i], prefix[i])

\* The editorial priority of the tiers: Function words, Chat/slang, Fillers,
\* Common lemmas, Formal discourse
Priority == [tier1 |-> 1, tier3a |-> 2, tier3b |-> 3, tier2 |-> 4, tier4 |-> 5]

\* The entries of a batch: where each returned suggestion was taken from
Batch == {out.writes[i] : i \in 1..Len(out.writes)}

\* Number of words of tier t that match prefix
MatchCount(t, prefix) ==
    Cardinality({i \in 1..Len(tiers[t].words) : MatchesPrefix(tiers[t].words[i], prefix)})

RECURSIVE SumOver(_, _)
SumOver(f, S) ==
    IF S = {} THEN 0
    ELSE LET x == CHOOSE y \in S : TRUE IN f[x] + SumOver(f, S \ {x})

\* M: the words of all five tiers that match prefix
TotalMatches(prefix) == SumOver([t \in Tiers |-> MatchCount(t, prefix)], Tiers)

TotalWords == SumOver([t \in Tiers |-> tiers[t].count], Tiers)

\* A call on an initialized store that extracted a prefix and searched for it
Searched == out.called /\ initialized /\ out.last_word # NoWord

\* input without its trailing delimiters
RECURSIVE StripTrailing(_)
StripTrailing(input) ==
    IF input # <<>> /\ input[Len(input)] \in {" ", "\n", "\r"}
    THEN StripTrailing(SubSeq(input, 1, Len(input) - 1))
    ELSE input

\* The text of a call, when it is one
HasText == out.called /\ out.input # NullInput /\ out.input # <<>>

----------------------------------------------------------------------------
\* C1: in every batch the suggestions are grouped by tier in the order tier1, tier3a,
\* tier3b, tier2, tier4: a suggestion from a later tier never precedes one from an
\* earlier tier, and each slot holds the word it was taken from.
C1_TierPriority ==
    out.called =>
        /\ \A a, b \in Batch : a.slot < b.slot => Priority[a.tier] <= Priority[b.tier]
        /\ \A a \in Batch :
               out.suggestions[a.slot] = Take(tiers[a.tier].words[a.index + 1], 31)

\* C1 witness: a batch with a Function-words match and a Formal-discourse match
C1_Witness ==
    /\ out.called
    /\ \E a, b \in Batch : a.tier = "tier1" /\ b.tier = "tier4" /\ a.slot < b.slot

\* C2 as stated: on an initialized store an input ending in a space, newline or
\* carriage return gets an empty batch.
C2_Original ==
    (HasText /\ initialized /\ out.input[Len(out.input)] \in {" ", "\n", "\r"})
        => out.ret = 0

\* C2 amended: trailing whitespace is skipped.  An input ending in whitespace gets
\* the batch of the same input without its trailing whitespace, and an empty batch
\* only when nothing but whitespace is there.
C2_TrailingWhitespaceSkipped ==
    (HasText /\ initialized /\ out.input[Len(out.input)] \in {" ", "\n", "\r"}) =>
        LET stripped == StripTrailing(out.input)
        IN  IF stripped = <<>>
            THEN out.ret = 0 /\ out.last_word = NoWord
            ELSE /\ out.last_word # NoWord
                 /\ [out EXCEPT !.input = stripped] =
                        t9plus_get_suggestions(tiers, initialized, stripped,
                                               out.max_suggestions)

\* C2 witness: "test " gets the suggestion "test"
C2_Witness ==
    /\ out.called /\ initialized
    /\ out.input = <<"t","e","s","t"," ">>
    /\ out.last_word = <<"t","e","s","t">>
    /\ out.ret > 0
    /\ out.suggestions[0] = <<"t","e","s","t">>

\* C3: the count returned is at most min(max_suggestions, 3), for requests up to 255;
\* a request of 0 returns 0; no slot at or after the count, or outside 0..2, is written.
C3_BudgetRespected ==
    out.called =>
        /\ out.ret <= Min(out.max_suggestions, 3)
        /\ (out.max_suggestions = 0 => out.ret = 0)
        /\ \A a \in Batch : a.slot < out.ret /\ a.slot < 3
        /\ \A k \in 0..2 : k >= out.ret => out.suggestions[k] = Unwritten

\* C3 witness: a request above 3 answered with exactly 3 suggestions
C3_Witness ==
    /\ out.called
    /\ out.max_suggestions > 3
    /\ out.ret = 3
    /\ TotalMatches(out.last_word) > 3

\* C4: within one tier the matches come in insertion order, and no matching word of a
\* tier is left out while a later word of that tier is returned.
C4_InsertionOrder ==
    Searched =>
        /\ \A a, b \in Batch :
               (a.tier = b.tier /\ a.index < b.index) => a.slot < b.slot
        /\ \A b \in Batch : \A i \in 0..(b.index - 1) :
               MatchesPrefix(tiers[b.tier].words[i + 1], out.last_word)
                   => \E a \in Batch : a.tier = b.tier /\ a.index = i

\* C4 witness: two suggestions of one tier with a non-matching word between them
C4_Witness ==
    /\ Searched
    /\ \E a, b \in Batch :
           /\ a.tier = b.tier /\ a.index + 1 < b.index
           /\ ~MatchesPrefix(tiers[a.tier].words[a.index + 2], out.last_word)

\* C5: a search returns min(min(max_suggestions, 3), M) suggestions, M the number of
\* matching words over the five tiers: no tier is skipped while budget is left (short
\* of the cap every word of every tier was compared) and the scan stops at the cap
\* (the last word compared is the last one returned).
C5_CountIsMinOfCapAndMatches ==
    Searched =>
        LET cap == Min(Min(out.max_suggestions, 3), TotalMatches(out.last_word))
        IN  /\ out.ret = cap
            /\ out.ret < Min(out.max_suggestions, 3) => Len(out.scanned) = TotalWords
            /\ (out.ret = Min(out.max_suggestions, 3) /\ out.ret > 0) =>
                   LET last == out.scanned[Len(out.scanned)]
                   IN  \E a \in Batch :
                           a.slot = out.ret - 1 /\ last = <<a.tier, a.index>>
            /\ Min(out.max_suggestions, 3) = 0 => out.scanned = <<>>

\* C5 witness: a full batch that two tiers share, the first giving only part of it
C5_Witness ==
    /\ Searched
    /\ out.ret = 3
    /\ \E a, b \in Batch : a.tier # b.tier
    /\ TotalMatches(out.last_word) > 3

\* C6: on a store that is not initialized the call returns 0 for every input and
\* searches no tier.
C6_UninitializedReturnsEmpty ==
    (out.called /\ ~initialized) =>
        /\ out.ret = 0
        /\ out.searched = <<>> /\ out.scanned = <<>> /\ out.writes = <<>>
        /\ \A k \in 0..2 : out.suggestions[k] = Unwritten

\* C6 witness: a query with a word in it after an initialize() that failed
C6_Witness ==
    /\ out.called /\ ~initialized
    /\ init_log.last = "allocfail"
    /\ out.input = <<"h","e","l","l","o"," ","t","h","e","r","e">>
    /\ out.max_suggestions = 3

\* The built-in fallback words of the claim, in their order
C10_Fallback ==
    <<<<"t","h","e">>,
      <<"t","h","a","t">>,
      <<"t","h","i","s">>,
      <<"t","o">>,
      <<"i","t">>,
      <<"i","s">>,
      <<"i","n">>,
      <<"a","n","d">>,
      <<"h","a","v","e">>,
      <<"w","e">>,
      <<"w","e","r","e">>,
      <<"w","i","l","l">>,
      <<"w","o","u","l","d">>,
      <<"h","e","l","l","o">>,
      <<"h","e","l","p">>,
      <<"w","o","r","l","d">>,
      <<"w","o","r","k">>>>

----------------------------------------------------------------------------
\* Vocabulary of the loader's claims

\* The positions of data that hold a line terminator
LineBreaks(data) == {i \in 1..Len(data) : data[i] \in {"\n", "\r"}}

\* Where the lines of data start: at its first byte and after every '\n' or '\r'
LineStarts(data) ==
    {s \in {1} \cup {i + 1 : i \in LineBreaks(data)} : s <= Len(data)}

\* The line that starts at s, without its terminator
LineAt(data, s) ==
    LET later == {b \in LineBreaks(data) : b >= s}
    IN  IF later = {} THEN SubSeq(data, s, Len(data))
        ELSE SubSeq(data, s, (CHOOSE b \in later : \A c \in later : b <= c) - 1)

\* The lines of a source: runs of bytes ended by "\n" or "\r", and a last run that
\* no terminator ends
LinesOf(data) ==
    LET S == LineStarts(data)
    IN  [k \in 1..Cardinality(S) |->
            LineAt(data, CHOOSE s \in S : Cardinality({u \in S : u < s}) = k - 1)]

\* A line without its trailing whitespace
TrimRight(line) ==
    LET solid == {i \in 1..Len(line) : line[i] \notin {" ", "\t", "\n", "\r", "\f", "\\v"}}
    IN  IF solid = {} THEN <<>>
        ELSE SubSeq(line, 1, CHOOSE i \in solid : \A j \in solid : j <= i)

\* The word a line stands for: its trimmed content, as a C string
WordOf(line) == CStr(TrimRight(line))

\* The words of the lines that pass test, in source order
WordsWhere(data, test(_)) ==
    LET kept == SelectSeq(LinesOf(data), test)
    IN  [i \in 1..Len(kept) |-> WordOf(kept[i])]

\* A line that is neither blank nor a comment
IsWordLine(line) == TrimRight(line) # <<>> /\ line[1] # "#"

\* The words stored so far by the load in progress
Stored == IF ld.pc = "idle" THEN <<>> ELSE ld.tier.words

\* C7 as stated: no word stored in a tier is longer than 31 characters.
C7_NoWordOver31 ==
    /\ \A i \in 1..Len(Stored) : Len(Stored[i]) <= 31
    /\ \A t \in Tiers : \A i \in 1..Len(tiers[t].words) : Len(tiers[t].words[i]) <= 31

C8_Kept(line) == IsWordLine(line) /\ Len(line) <= 32

C9_Kept(line) == IsWordLine(line) /\ Len(TrimRight(line)) <= 31

\* C9 as stated: after the load the tier holds, in source order, exactly the trimmed
\* lines that are non-empty, at most 31 characters long and do not start with '#'.
C9_ExactlyTheValidLines ==
    ld.pc = "done" => Stored = WordsWhere(ld.data, C9_Kept)

----------------------------------------------------------------------------
\* Initialization, diagnostics and shutdown

\* The source loads of the most recent t9plus_init that failed
FailedLoads == Cardinality({t \in Tiers : ~init_log.sources[t].open})

C12_CapacityNeverExceeded ==
    /\ [](/\ ld.tier.count <= ld.tier.capacity
          /\ ld.tier.capacity <= MAX_TIER_WORDS
          /\ Len(ld.tier.words) = ld.tier.count
          /\ \A t \in Tiers : tiers[t].count <= tiers[t].capacity
                              /\ tiers[t].capacity <= MAX_TIER_WORDS)
    /\ [][ld.tier.count = ld.tier.capacity => ld'.tier = ld.tier]_vars

\* The loader has read past the line that would be word 1001 of a full tier
C12_Witness ==
    /\ ld.tier.count = MAX_TIER_WORDS /\ ld.tier.capacity = MAX_TIER_WORDS
    /\ ld.pc = "read" /\ ld.pos = 0
    /\ ld.off = 2 * (MAX_TIER_WORDS + 1)
    /\ ld.data[ld.off - 1] = "a"

\* A step in which t9plus_init ran on an initialized store
InitOnInitialized ==
    /\ initialized
    /\ init_log' # init_log
    /\ init_log'.last \in {"already", "loaded", "allocfail"}

\* C13: t9plus_init on an initialized store returns true and leaves every tier, the
\* initialized flag and the diagnostic state unchanged; it allocates nothing and loads
\* nothing, whatever the data files and the allocator would have done.
C13_InitIdempotent ==
    [][InitOnInitialized =>
          /\ UNCHANGED <<tiers, initialized, has_load_errors, error_message, heap>>
          /\ init_log' = [init_log EXCEPT !.last = "already", !.ret = TRUE]]_vars

\* t9plus_init has returned early on a store holding loaded words and a diagnostic
C13_Witness ==
    /\ initialized /\ init_log.last = "already" /\ init_log.ret
    /\ has_load_errors /\ tiers["tier4"].count > 0 /\ heap > 0

\* C14: after a t9plus_init in which one of the five tier allocations failed, every
\* tier allocated earlier in the call has been released (no tier has backing storage
\* or words, no block is live), the call has returned false, the store is not
\* initialized, and t9plus_get_suggestions returns 0.
C14_AllocFailureLeavesUninitialized ==
    init_log.last = "allocfail" =>
        /\ ~init_log.ret
        /\ ~initialized
        /\ \A t \in Tiers : ~tiers[t].alloc /\ tiers[t].count = 0 /\ tiers[t].words = <<>>
        /\ heap = 0
        /\ out.called => out.ret = 0 /\ out.writes = <<>>

\* The last allocation failed after four succeeded, and a word was then asked for
C14_Witness ==
    /\ init_log.last = "allocfail" /\ init_log.alloc_fail = Len(TierNames)
    /\ out.called /\ out.input = <<"t">> /\ out.max_suggestions = 3 /\ out.ret = 0

\* C15: when the five tier allocations succeed, t9plus_init returns true and marks the
\* store initialized whichever of the five loads fail, from none to all five.
C15_LoadFailuresNeverFailInit ==
    init_log.last = "loaded" =>
        /\ init_log.ret
        /\ initialized
        /\ init_log.failed_count = FailedLoads

\* t9plus_init has returned after all five loads failed
C15_Witness ==
    /\ init_log.last = "loaded" /\ FailedLoads = 5 /\ init_log.ret /\ initialized
    /\ error_message = NoDataMessage

\* No tier has words or backing storage
TiersReleased ==
    \A t \in Tiers : tiers[t].count = 0 /\ tiers[t].words = <<>> /\ ~tiers[t].alloc

\* A step in which t9plus_deinit ran on a store that was not initialized
DeinitOnUninitialized ==
    ~initialized /\ init_log' # init_log /\ init_log'.last \in {"deinit", "deinit_noop"}

\* A step in which t9plus_deinit ran on an initialized store
DeinitOnInitialized ==
    initialized /\ init_log' # init_log /\ init_log'.last \in {"deinit", "deinit_noop"}

\* C16: t9plus_deinit on an uninitialized store changes nothing; on an initialized
\* store it leaves every tier with no words and no backing storage and clears
\* initialized.  Over every sequence of init and deinit calls the live blocks are
\* exactly the arrays and strings the tiers own (none freed twice, none lost), and none
\* is live while the store is not initialized.
C16_ShutdownReleasesEverything ==
    /\ [](/\ heap = BlocksOf(tiers, Tiers)
          /\ heap >= 0
          /\ ~initialized => heap = 0 /\ TiersReleased)
    /\ [][DeinitOnUninitialized =>
              UNCHANGED <<tiers, initialized, has_load_errors, error_message, heap>>]_vars
    /\ [][DeinitOnInitialized => ~initialized' /\ TiersReleased' /\ heap' = 0]_vars

\* t9plus_deinit has run on a store whose five loads had all succeeded
C16_Witness ==
    /\ init_log.last = "deinit" /\ ~initialized /\ heap = 0 /\ TiersReleased
    /\ ~has_load_errors

\* A step in which t9plus_get_suggestions ran
SuggestionsCall == ~out.called /\ out'.called

\* C17: t9plus_get_suggestions has no effect on the store: for every input and
\* max_suggestions all five tiers (words, order, count, capacity), the initialized flag
\* and the diagnostic state are the same after the call as before it.
C17_GetSuggestionsIsPureRead ==
    [][SuggestionsCall =>
          UNCHANGED <<tiers, initialized, has_load_errors, error_message, heap>>]_vars

\* A call on an initialized store has returned a full batch
C17_Witness ==
    /\ out.called /\ initialized /\ out.ret = T9PLUS_MAX_SUGGESTIONS
    /\ has_load_errors /\ tiers["tier1"].count > 0

----------------------------------------------------------------------------
\* Matching and prefix extraction

\* The word of the tier entry e = <<tier, index>> that a search compared
ScannedWord(e) == tiers[e[1]].words[e[2] + 1]

\* C18: a word compared by the search is taken as a match iff it is at least as long
\* as the prefix and its first Len(prefix) characters equal the prefix, ASCII case
\* ignored; a word shorter than the prefix is never taken.
C18_MatchIsCaseInsensitivePrefix ==
    Searched =>
        \A k \in 1..Len(out.scanned) :
            LET e == out.scanned[k]
                taken == \E w \in Batch : w.tier = e[1] /\ w.index = e[2]
            IN  /\ taken <=> MatchesPrefix(ScannedWord(e), out.last_word)
                /\ Len(ScannedWord(e)) < Len(out.last_word) => ~taken

\* "Hello" and "he" were returned for the prefix "He", and "to" was compared with it
\* and not returned
C18_Witness ==
    /\ Searched /\ out.last_word = <<"H", "e">>
    /\ \E w \in Batch : tiers[w.tier].words[w.index + 1] = <<"H", "e", "l", "l", "o">>
    /\ \E w \in Batch : tiers[w.tier].words[w.index + 1] = <<"h", "e">>
    /\ \E k \in 1..Len(out.scanned) :
           /\ ScannedWord(out.scanned[k]) = <<"t", "o">>
           /\ ~\E w \in Batch : <<w.tier, w.index>> = out.scanned[k]

\* The positions of input that hold a space, '\n' or '\r'
DelimsIn(input) == {i \in 1..Len(input) : input[i] \in {" ", "\n", "\r"}}

\* What follows the last space, '\n' or '\r' of input; all of input when it has none
AfterLastDelim(input) ==
    IF DelimsIn(input) = {} THEN input
    ELSE LET last == CHOOSE i \in DelimsIn(input) : \A j \in DelimsIn(input) : j <= i
         IN  SubSeq(input, last + 1, Len(input))

\* C19: on an initialized store, for a non-empty input that does not end in a space,
\* '\n' or '\r' and whose trailing word has at most 31 characters, the prefix searched
\* for is exactly what follows the last space, '\n' or '\r' of the input, or the whole
\* input when it has none.
C19_PrefixIsTrailingWord ==
    (/\ HasText /\ initialized
     /\ out.input[Len(out.input)] \notin {" ", "\n", "\r"}
     /\ Len(AfterLastDelim(out.input)) <= 31)
        => out.last_word = AfterLastDelim(out.input)

\* "hello there" was searched as "there"
C19_Witness ==
    /\ initialized /\ out.called
    /\ out.input = <<"h","e","l","l","o"," ","t","h","e","r","e">>
    /\ out.last_word = <<"t","h","e","r","e">>
    /\ out.searched # <<>>

----------------------------------------------------------------------------
\* The five loads of t9plus_init

\* What the file of tier t alone puts into a tier: nothing when it cannot be opened
OwnWords(t) ==
    IF init_log.sources[t].open
    THEN Take(WordsWhere(init_log.sources[t].data, C8_Kept), MAX_TIER_WORDS)
    ELSE <<>>

\* The words tier1 is given when its load left it empty
FallbackWords ==
    AddWords(tier_alloc(EmptyTier, MAX_TIER_WORDS, TRUE), HardcodedWords).words

\* C20: the five loads are independent.  After t9plus_init every tier holds exactly
\* the words of its own file, whichever of the other four files could not be opened,
\* and no word of another tier's file (tier1 holds the hardcoded words instead when its
\* own load left it empty).
C20_LoadsAreIndependent ==
    (initialized /\ init_log.last \in {"loaded", "already"}) =>
        \A t \in Tiers :
            /\ init_log.loaded[t] = OwnWords(t)
            /\ tiers[t].words = IF t = "tier1" /\ OwnWords(t) = <<>>
                                THEN FallbackWords ELSE OwnWords(t)

\* tier4 was loaded from its file after the loads of tier1, tier2 and tier3b failed
C20_Witness ==
    /\ initialized /\ init_log.last = "loaded"
    /\ ~init_log.sources["tier1"].open /\ ~init_log.sources["tier2"].open
    /\ init_log.sources["tier3a"].open /\ ~init_log.sources["tier3b"].open
    /\ init_log.sources["tier4"].open
    /\ tiers["tier4"].count = 4 /\ tiers["tier3a"].count = 3 /\ tiers["tier2"].count = 0

----------------------------------------------------------------------------
\* Read failures, excess words and the stored words

\* The load has ended on a read that failed before the end of the file
ReadFailed ==
    /\ ld.pc = "done"
    /\ ld.fail_at # NoFail
    /\ ld.off = ld.fail_at
    /\ ld.off < Len(ld.data)

\* C21 as stated: a load whose read fails part-way through the file reports failure
\* (which is what t9plus_init counts in failed_count).
C21_ReadFailureReported ==
    ReadFailed => ~ld.success

\* The bytes before the first word line of a file that fills a tier: none, or a line
\* of MAX_WORD_LEN + 1 bytes and its terminator
HeadLen == IF ld.data[2] = "\n" THEN 0 ELSE MAX_WORD_LEN + 2

\* The number of word lines of such a file, and its k-th word
WordLineCount == (Len(ld.data) - HeadLen) \div 2
WordLine(k) == <<ld.data[HeadLen + 2 * k - 1]>>

C23_StoredWordsValid ==
    \A i \in 1..Len(Stored) :
        /\ Stored[i] # <<>>
        /\ Stored[i][1] # "#"
        /\ \E j \in 1..Len(Stored[i]) : ~isspace(Stored[i][j])

----------------------------------------------------------------------------
\* Long words

\* The trailing word of the input of the call: what follows the last delimiter, once
\* the delimiters at the end are set aside
TrailingWord == AfterLastDelim(StripTrailing(out.input))

\* C24: a trailing word of more than 31 characters is not rejected: the prefix searched
\* for is its first 31 characters, and the call returns the words matching that
\* prefix, as many as max_suggestions (capped at 3) allows.
C24_LongWordSearchedTruncated ==
    (HasText /\ initialized /\ Len(TrailingWord) > 31) =>
        LET prefix == Take(TrailingWord, 31)
        IN  /\ out.last_word = prefix
            /\ out.ret = Min(Min(out.max_suggestions, T9PLUS_MAX_SUGGESTIONS),
                             TotalMatches(prefix))
            /\ Len(out.writes) = out.ret
            /\ \A w \in Batch : MatchesPrefix(tiers[w.tier].words[w.index + 1], prefix)

\* A word of 32 letters was typed and the stored word of 31 letters came back
C24_Witness ==
    /\ initialized /\ out.called
    /\ out.input = <<"h", " ">> \o Rep("t", MAX_WORD_LEN)
    /\ out.last_word = Rep("t", MAX_WORD_LEN - 1)
    /\ out.ret = 1
    /\ out.suggestions[0] = Rep("t", MAX_WORD_LEN - 1)

\* C25 as stated: every string of a returned batch is equal, character for character,
\* to a word stored in one of the five tiers, and starts with the prefix searched for,
\* ASCII case ignored.
C25_SuggestionsAreStoredWords ==
    out.called =>
        \A k \in 0..(out.ret - 1) :
            /\ \E t \in Tiers : \E i \in 1..Len(tiers[t].words) :
                   tiers[t].words[i] = out.suggestions[k]
            /\ MatchesPrefix(out.suggestions[k], out.last_word)

----------------------------------------------------------------------------
\* Termination and bounds of the loader

\* C26: load_tier_from_file terminates on every finite source, a read at the end of
\* the file returning 0 bytes: the load reaches its end, with the whole source read,
\* also when the last line is over-long and has no terminator and when every line is
\* over-long.
C26_LoadTerminates ==
    <>(ld.pc = "done" /\ ld.off = Len(ld.data))

\* The load of a source made of one over-long line without terminator has ended
C26_Witness ==
    /\ ld.pc = "done"
    /\ ld.data = Rep("a", 2 * (MAX_WORD_LEN + 1))
    /\ ld.tier.count = 0


----------------------------------------------------------------------------
\* C27

\* t9plus_init has returned and t9plus_deinit has not been called
LibraryInService ==
    /\ app.pc = "loop"
    /\ init_log.last \in {"loaded", "allocfail"}

\* C27: in the host application every call of t9plus_get_suggestions is made, and its
\* batch is held by the draw callback, after t9plus_init has returned and before
\* t9plus_deinit is called: the T9 view port is attached only in T9 mode, the
\* application leaves its loop only from the splash screen, and no view port is
\* attached or allocated when t9plus_deinit runs
C27_SuggestionsOnlyInService ==
    /\ [][(out'.called /\ ~out.called) => LibraryInService]_vars
    /\ [](out.called => LibraryInService)
    /\ []("t9" \in app.attached => app.pc = "loop" /\ app.in_t9_mode)
    /\ [](app.pc \in {"free", "deinit", "exited"} => ~app.in_t9_mode)
    /\ [](app.pc \in {"deinit", "exited"} => app.attached = {} /\ app.allocated = {})

\* The draw callback of the attached T9 view port holds suggestions for the text typed
C27_Witness ==
    /\ out.called /\ out.ret > 0
    /\ "t9" \in app.attached
    /\ out.input = app.text_buffer


----------------------------------------------------------------------------
\* C28

\* The leftmost position of a line: -1 on lines 2 and 3, 0 on lines 0 and 1
C28_MinPos(line) == IF line \in {2, 3} THEN -1 ELSE 0

\* C28: after any sequence of Up, Down, Left, Right, OK and Back key events on the T9
\* screen the cursor has line in 0..3 and min_pos(line) <= pos <= len(t9_lines[line]) - 1,
\* so pos is -1 on line 3, and t9_add_character reads a keyboard line string only at
\* a position from 0 to its length minus one
C28_CursorInRange ==
    LET c == app.t9_cursor
        f == app.fetched
    IN  /\ c.line \in 0..3
        /\ C28_MinPos(c.line) <= c.pos
        /\ c.pos <= Len(t9_lines[c.line + 1]) - 1
        /\ c.line = 3 => c.pos = -1
        /\ f.done =>
               /\ f.line \in 0..2
               /\ f.pos >= 0
               /\ f.pos < Len(t9_lines[f.line + 1])
               /\ f.pos < Len(t9_lines_upper[f.line + 1])

\* With shift locked at the button of line 2, the last key of line 1 has been typed
C28_Witness ==
    /\ app.fetched = [done |-> TRUE, line |-> 1, pos |-> 9]
    /\ app.shift_locked
    /\ app.text_buffer = <<"'">>
    /\ app.t9_cursor = [line |-> 1, pos |-> 9]


----------------------------------------------------------------------------
\* C29

\* C29: while load_tier_from_file runs, the line-buffer index pos stays within 0..32
\* for any source content, so the byte read into buffer[pos] and the NUL written at
\* buffer[pos] lie inside the 34-byte line buffer
C29_LineIndexInBuffer ==
    ld.pc # "idle" =>
        /\ ld.pos \in 0..32
        /\ Len(ld.buffer) = 34
        /\ ld.pos + 1 \in DOMAIN ld.buffer

\* The index has reached 32: the bytes of an over-long line are being skipped
C29_Witness ==
    /\ ld.pc = "skip"
    /\ ld.pos = 32
    /\ ld.buffer[33] \notin {Uninit, "\n", "\r"}

====
